---------------------------- MODULE Spec2Model ----------------------------
(***************************************************************************)
(* YouTube age-checker backend: identifier resolution, the 24h response    *)
(* cache and the per-request handler, in its two versions:                 *)
(*   variant "A" = src/unnamed/part_000   (GET + POST, handleChannelRequest,*)
(*                 cache keyed by the raw input, cache check first)        *)
(*   variant "B" = src/youtube-backend.js (POST only, cache keyed by the   *)
(*                 resolved channel ID, resolution first)                  *)
(* Strings are sequences of one-character strings, so that the regular     *)
(* expressions of extractChannelId are computed character by character.    *)
(* Instants are milliseconds since 00:00:00 UTC of BaseDate; the server's  *)
(* local time zone is taken to be UTC.                                     *)
(***************************************************************************)
EXTENDS Integers, Sequences, FiniteSets, TLC

(***************************************************************************)
(* Characters and strings                                                  *)
(***************************************************************************)
UpperCase == <<"A","B","C","D","E","F","G","H","I","J","K","L","M",
               "N","O","P","Q","R","S","T","U","V","W","X","Y","Z">>

LowerCase == <<"a","b","c","d","e","f","g","h","i","j","k","l","m",
               "n","o","p","q","r","s","t","u","v","w","x","y","z">>

Digits == <<"0","1","2","3","4","5","6","7","8","9">>

Range(s) == { s[i] : i \in 1..Len(s) }

\* Index of c in the sequence t, 0 when absent.
IndexOf(c, t) == IF \E i \in 1..Len(t) : t[i] = c
                 THEN CHOOSE i \in 1..Len(t) : t[i] = c
                 ELSE 0

\* Case folding of the /i flag.
ToLower(c) == IF IndexOf(c, UpperCase) > 0 THEN LowerCase[IndexOf(c, UpperCase)] ELSE c

\* The class [0-9a-zA-Z_-].
IsIdChar(c) == c \in Range(Digits) \cup Range(LowerCase) \cup Range(UpperCase) \cup {"_", "-"}

\* The class \s (the members that occur in inputs).
IsSpace(c) == c \in {" ", "\t", "\n", "\r"}

\* The class [^\s\/].
IsNameChar(c) == ~IsSpace(c) /\ c # "/"

\* The literal lit occurs in s at position i; ci = case-insensitively.
LitAt(lit, s, i, ci) ==
    /\ i >= 1
    /\ i + Len(lit) - 1 <= Len(s)
    /\ \A k \in 1..Len(lit) :
          IF ci THEN ToLower(s[i + k - 1]) = ToLower(lit[k])
                ELSE s[i + k - 1] = lit[k]

\* Length of the longest run of [^\s\/] characters of s starting at i.
NameRun(s, i) ==
    LET stops == { j \in i..Len(s) : ~IsNameChar(s[j]) }
    IN  IF i > Len(s) THEN 0
        ELSE IF stops = {} THEN Len(s) - i + 1
        ELSE (CHOOSE j \in stops : \A k \in stops : j <= k) - i

\* ([^\s\/]+) at position i: the captured run (empty when there is none).
NameAt(s, i) == SubSeq(s, i, i + NameRun(s, i) - 1)

\* String.prototype.trim: from the first to the last character that is not
\* white space.
Trim(s) ==
    LET solid == { i \in 1..Len(s) : ~IsSpace(s[i]) }
    IN  IF solid = {} THEN <<>>
        ELSE SubSeq(s, CHOOSE i \in solid : \A k \in solid : i <= k,
                       CHOOSE i \in solid : \A k \in solid : i >= k)

(***************************************************************************)
(* decodeURIComponent (part_000:57)                                        *)
(***************************************************************************)
\* The printable ASCII characters, code 32 first (code 96 is written "<grave>").
Ascii == <<" ", "!", "\"", "#", "$", "%", "&", "'", "(", ")", "*", "+", ",", "-", ".", "/",
         "0", "1", "2", "3", "4", "5", "6", "7", "8", "9", ":", ";", "<", "=", ">", "?",
         "@", "A", "B", "C", "D", "E", "F", "G", "H", "I", "J", "K", "L", "M", "N", "O",
         "P", "Q", "R", "S", "T", "U", "V", "W", "X", "Y", "Z", "[", "\\", "]", "^", "_",
         "<grave>", "a", "b", "c", "d", "e", "f", "g", "h", "i", "j", "k", "l", "m", "n", "o",
         "p", "q", "r", "s", "t", "u", "v", "w", "x", "y", "z", "{", "|", "}", "~">>

HexDigits == <<"0","1","2","3","4","5","6","7","8","9","a","b","c","d","e","f">>

IsHex(c) == IndexOf(ToLower(c), HexDigits) > 0

HexVal(c) == IndexOf(ToLower(c), HexDigits) - 1

\* The character of an ASCII code; control characters other than tab, line
\* feed and carriage return are all written "<ctl>".
CharOfCode(b) == IF b >= 32 /\ b <= 126 THEN Ascii[b - 31]
                 ELSE IF b = 9 THEN "\t"
                 ELSE IF b = 10 THEN "\n"
                 ELSE IF b = 13 THEN "\r"
                 ELSE "<ctl>"

\* s has a %XX escape at position i; its byte value.
IsEscape(s, i) == i + 2 <= Len(s) /\ s[i] = "%" /\ IsHex(s[i + 1]) /\ IsHex(s[i + 2])

ByteAt(s, i) == 16 * HexVal(s[i + 1]) + HexVal(s[i + 2])

\* Number of continuation bytes a UTF-8 lead byte announces, -1 for a byte
\* that cannot start a sequence.
Continuations(b) == IF b < 128 THEN 0
                    ELSE IF b >= 194 /\ b <= 223 THEN 1
                    ELSE IF b >= 224 /\ b <= 239 THEN 2
                    ELSE IF b >= 240 /\ b <= 244 THEN 3
                    ELSE -1

\* The n escapes from position i on are continuation bytes (0x80..0xBF).
ContinuationsOk(s, i, n) ==
    \A k \in 0..(n - 1) :
        /\ IsEscape(s, i + 3 * k)
        /\ ByteAt(s, i + 3 * k) >= 128
        /\ ByteAt(s, i + 3 * k) <= 191

\* A "%" is never one of the two hex digits of an escape, so every "%" of s
\* starts an escape. The escape at i is a continuation byte of a sequence
\* whose lead byte is the escape at i - 3k.
ContinuesFrom(s, i, k) ==
    /\ i - 3 * k >= 1
    /\ IsEscape(s, i - 3 * k)
    /\ Continuations(ByteAt(s, i - 3 * k)) >= k
    /\ ContinuationsOk(s, i - 3 * k + 3, k)

\* The escape at i is well-formed: an ASCII byte, a lead byte followed by
\* its continuation bytes, or a continuation byte of such a sequence.
EscapeOk(s, i) ==
    /\ IsEscape(s, i)
    /\ LET b == ByteAt(s, i)
       IN  IF b >= 128 /\ b <= 191 THEN \E k \in 1..3 : ContinuesFrom(s, i, k)
           ELSE Continuations(b) >= 0 /\ ContinuationsOk(s, i + 3, Continuations(b))

\* The positions of s that yield a character of the result: the characters
\* outside escapes, and the first byte of each escaped character.
Yields(s, i) ==
    IF s[i] = "%" THEN ByteAt(s, i) < 128 \/ ByteAt(s, i) > 191
    ELSE ~(i > 1 /\ s[i - 1] = "%") /\ ~(i > 2 /\ s[i - 2] = "%")

\* decodeURIComponent: [ok |-> FALSE] is the URIError it throws, otherwise
\* str is the decoded string. A decoded character beyond ASCII is written
\* "<u>".
\* Variation: nothing is decoded.
decodeURIComponent_Identity(s) == [ok |-> TRUE, str |-> s]

decodeURIComponent(s) ==
    LET ok  == \A i \in 1..Len(s) : s[i] = "%" => EscapeOk(s, i)
        out == { i \in 1..Len(s) : Yields(s, i) }
        pos(k) == CHOOSE i \in out : Cardinality({ j \in out : j <= i }) = k
        chr(i) == IF s[i] # "%" THEN s[i]
                  ELSE IF ByteAt(s, i) < 128 THEN CharOfCode(ByteAt(s, i))
                  ELSE "<u>"
    IN  IF ok THEN [ok |-> TRUE, str |-> [k \in 1..Cardinality(out) |-> chr(pos(k))]]
        ELSE [ok |-> FALSE, str |-> <<>>]

(***************************************************************************)
(* The patterns of extractChannelId                                        *)
(***************************************************************************)
YoutubeCom == <<"y","o","u","t","u","b","e",".","c","o","m","/">>

ChannelPath == <<"c","h","a","n","n","e","l","/">>

IdPrefix == <<"U","C">>

\* Length of a channel ID: "UC" and the 22 characters of {22}.
IdLen == Len(IdPrefix) + 22

\* /^UC[0-9a-zA-Z_-]{22}$/ (case-sensitive).
IsChannelId(s) ==
    /\ Len(s) = IdLen
    /\ LitAt(IdPrefix, s, 1, FALSE)
    /\ \A k \in (Len(IdPrefix) + 1)..IdLen : IsIdChar(s[k])

\* UC[0-9a-zA-Z_-]{22} under the /i flag at position i.
IdAt(s, i) ==
    /\ i + IdLen - 1 <= Len(s)
    /\ LitAt(IdPrefix, s, i, TRUE)
    /\ \A k \in (i + Len(IdPrefix))..(i + IdLen - 1) : IsIdChar(s[k])

\* /youtube\.com\/channel\/(UC[0-9a-zA-Z_-]{22})/i matches at position i.
ChannelMatchAt(s, i) ==
    /\ LitAt(YoutubeCom \o ChannelPath, s, i, TRUE)
    /\ IdAt(s, i + Len(YoutubeCom) + Len(ChannelPath))

\* The least member of a non-empty set of positions.
Leftmost(S) == CHOOSE i \in S : \A j \in S : i <= j

\* Variation: the whole match, channelMatch[0], is taken for the ID.
channelMatch_WholeMatch(s) ==
    LET at == { i \in 1..Len(s) : ChannelMatchAt(s, i) }
    IN  IF at = {} THEN <<>>
        ELSE SubSeq(s, Leftmost(at), Leftmost(at) + Len(YoutubeCom) + Len(ChannelPath) + IdLen - 1)

\* String.prototype.match with the channel pattern: group 1 of the leftmost
\* match, <<>> for null (group 1 is never empty).
channelMatch(s) ==
    LET at == { i \in 1..Len(s) : ChannelMatchAt(s, i) }
    IN  IF at = {} THEN <<>>
        ELSE LET j == Leftmost(at) + Len(YoutubeCom) + Len(ChannelPath)
             IN  SubSeq(s, j, j + IdLen - 1)

\* part_000:73, first pattern /youtube\.com\/(?:c\/|@)([^\s\/]+)/i at
\* position i: the position where group 1 starts, 0 for no match.
CustomGroupAt(s, i) ==
    LET j == i + Len(YoutubeCom)
    IN  IF ~LitAt(YoutubeCom, s, i, TRUE) THEN 0
        ELSE IF LitAt(<<"c", "/">>, s, j, TRUE) /\ NameRun(s, j + 2) > 0 THEN j + 2
        ELSE IF LitAt(<<"@">>, s, j, TRUE) /\ NameRun(s, j + 1) > 0 THEN j + 1
        ELSE 0

\* part_000:73: group 1 of the first pattern's leftmost match, otherwise of
\* /^@([^\s\/]+)/, <<>> for null.
customMatch(s) ==
    LET at == { i \in 1..Len(s) : CustomGroupAt(s, i) > 0 }
    IN  IF at # {} THEN NameAt(s, CustomGroupAt(s, Leftmost(at)))
        ELSE IF LitAt(<<"@">>, s, 1, FALSE) /\ NameRun(s, 2) > 0 THEN NameAt(s, 2)
        ELSE <<>>

\* youtube-backend.js:67, /(?:youtube\.com\/)?@?([^\s\/]+)/i at position i:
\* the position where group 1 starts, 0 for no match. Both optional parts are
\* greedy and give way when the group would otherwise be empty.
HandleGroupAt(s, i) ==
    LET j == i + Len(YoutubeCom)
    IN  IF LitAt(YoutubeCom, s, i, TRUE) /\ LitAt(<<"@">>, s, j, FALSE) /\ NameRun(s, j + 1) > 0
        THEN j + 1
        ELSE IF LitAt(YoutubeCom, s, i, TRUE) /\ NameRun(s, j) > 0 THEN j
        ELSE IF LitAt(<<"@">>, s, i, FALSE) /\ NameRun(s, i + 1) > 0 THEN i + 1
        ELSE IF NameRun(s, i) > 0 THEN i
        ELSE 0

\* youtube-backend.js:67: group 1 of the leftmost match, <<>> for null.
handleMatch(s) ==
    LET at == { i \in 1..Len(s) : HandleGroupAt(s, i) > 0 }
    IN  IF at = {} THEN <<>> ELSE NameAt(s, HandleGroupAt(s, Leftmost(at)))

\* youtube-backend.js:69, .replace(/^@/, '').
StripAt(s) == IF s # <<>> /\ Head(s) = "@" THEN Tail(s) ELSE s

(***************************************************************************)
(* Dates (the Date object) and calculateChannelAge                         *)
(***************************************************************************)
\* 1000 * 60 * 60 * 24, the divisor of totalDays.
MS_PER_DAY == 1000 * 60 * 60 * 24

\* Days from 1970-01-01 to the civil date y-m-d (proleptic Gregorian), as the
\* Date constructor computes them; m is 1..12.
DaysFromCivil(y, m, d) ==
    LET yy  == IF m <= 2 THEN y - 1 ELSE y
        era == yy \div 400
        yoe == yy - era * 400
        mp  == IF m > 2 THEN m - 3 ELSE m + 9
        doy == (153 * mp + 2) \div 5 + d - 1
        doe == yoe * 365 + yoe \div 4 - yoe \div 100 + doy
    IN  era * 146097 + doe - 719468

\* The civil date of a day number: getFullYear, getMonth (+1) and getDate.
\* era: the 400-year cycle; doe, yoe: day and year of the era; doy: day of
\* the year that starts in March; mp: month of that year.
CivilOfMonth(era, yoe, doy, mp) ==
    [y |-> yoe + era * 400 + (IF mp < 10 THEN 0 ELSE 1),
     m |-> IF mp < 10 THEN mp + 3 ELSE mp - 9,
     d |-> doy - (153 * mp + 2) \div 5 + 1]

CivilOfDay(era, yoe, doy) == CivilOfMonth(era, yoe, doy, (5 * doy + 2) \div 153)

CivilOfYear(era, doe, yoe) ==
    CivilOfDay(era, yoe, doe - (365 * yoe + yoe \div 4 - yoe \div 100))

CivilOfEra(era, doe) ==
    CivilOfYear(era, doe, (doe - doe \div 1460 + doe \div 36524 - doe \div 146096) \div 365)

CivilFromDays(z) == CivilOfEra((z + 719468) \div 146097, (z + 719468) % 146097)

\* new Date(year, month, 0).getDate() for the 1-based month m of year y: the
\* number of days of the month before m.
PrevMonthDays(y, m) == DaysFromCivil(y, m, 1) - (IF m = 1 THEN DaysFromCivil(y - 1, 12, 1)
                                                          ELSE DaysFromCivil(y, m - 1, 1))

\* The day the clock starts on; instants of the clock are milliseconds since
\* its midnight.
BaseDate == [y |-> 2024, m |-> 3, d |-> 10]

BaseDay == DaysFromCivil(BaseDate.y, BaseDate.m, BaseDate.d)

\* new Date() at clock value t, and new Date(creationDate) of an ISO
\* timestamp [y, m, d, ms]: a day number and the milliseconds into that day.
DateOfClock(t) == [day |-> BaseDay + t \div MS_PER_DAY, ms |-> t % MS_PER_DAY]

DateOfIso(iso) == [day |-> DaysFromCivil(iso.y, iso.m, iso.d), ms |-> iso.ms]

\* The template `${years} years, ${months} months, ${days} days`.
AgeText(years, months, days) == <<years, " years, ", months, " months, ", days, " days">>

\* calculateChannelAge at the instant `now` (a Date) for an ISO creation
\* date, step by step.
\* if (months < 0) { years--; months += 12; }
BorrowYear(years, months, days) ==
    IF months < 0 THEN AgeText(years - 1, months + 12, days) ELSE AgeText(years, months, days)

\* if (days < 0) { months--; days += new Date(now.getFullYear(), now.getMonth(), 0).getDate(); }
\* n is the civil date of now.
BorrowMonth(n, years, months, days) ==
    IF days < 0 THEN BorrowYear(years, months - 1, days + PrevMonthDays(n.y, n.m))
    ELSE BorrowYear(years, months, days)

\* The differences of the civil dates n (now) and c (created).
AgeBetween(n, c) == BorrowMonth(n, n.y - c.y, n.m - c.m, n.d - c.d)

\* Math.floor((now - created) / MS_PER_DAY), day-wise: the two instants
\* differ by whole days plus less than a day either way.
TotalDays(now, created) == (now.day - created.day) - (IF now.ms < created.ms THEN 1 ELSE 0)

AgeOf(now, created) ==
    [accountAge |-> AgeBetween(CivilFromDays(now.day), CivilFromDays(created.day)),
     age_days   |-> TotalDays(now, created)]

calculateChannelAge(now, creationDate) == AgeOf(now, DateOfIso(creationDate))

(***************************************************************************)
(* Normalisation of the upstream payload                                   *)
(***************************************************************************)
\* The number NaN; every other number of the model is a natural number.
NaN == -1

\* parseInt of an unsigned string: the value of its leading digits, NaN when
\* there is none.
RECURSIVE LeadingValue(_, _, _)
LeadingValue(s, i, acc) ==
    IF i <= Len(s) /\ IndexOf(s[i], Digits) > 0
    THEN LeadingValue(s, i + 1, 10 * acc + IndexOf(s[i], Digits) - 1)
    ELSE acc

parseInt(s) == IF s # <<>> /\ IndexOf(s[1], Digits) > 0 THEN LeadingValue(s, 1, 0) ELSE NaN

\* x || dflt for a string x: the empty and the absent string are both falsy.
OrElse(x, dflt) == IF x = "" THEN dflt ELSE x

\* subscriberCount >= 100000 ? 'Verified' : 'Not Verified'
VERIFIED_MIN == 100000

\* Variation: the threshold is exclusive.
verificationStatus_Strict(subscriberCount) ==
    IF subscriberCount # NaN /\ subscriberCount > VERIFIED_MIN THEN "Verified" ELSE "Not Verified"

verificationStatus(subscriberCount) ==
    IF subscriberCount # NaN /\ subscriberCount >= VERIFIED_MIN THEN "Verified" ELSE "Not Verified"

\* parseInt(channel.statistics.subscriberCount || 0): an absent or empty
\* count is 0.
subscriberCount(channel) ==
    IF channel.subscriberCount = <<>> THEN 0 ELSE parseInt(channel.subscriberCount)

\* responseData of the item `channel` at the Date `now`; variant A adds the
\* description.
Described(v, channel, base) ==
    IF v = "A" THEN base @@ [description |-> OrElse(channel.description, "N/A")]
    ELSE base

Normalised(v, channel, age, subs) ==
    Described(v, channel,
              [channel_id          |-> channel.id,
               channel_name        |-> OrElse(channel.title, "N/A"),
               profile_image_url   |-> OrElse(channel.thumbnail, "https://via.placeholder.com/50"),
               creation_date       |-> channel.publishedAt,
               account_age         |-> age.accountAge,
               age_days            |-> age.age_days,
               country             |-> OrElse(channel.country, "N/A"),
               verification_status |-> verificationStatus(subs),
               accuracy            |-> "Exact",
               subscribers         |-> subs])

responseData(v, channel, now) ==
    Normalised(v, channel, calculateChannelAge(now, channel.publishedAt), subscriberCount(channel))

(***************************************************************************)
(* Inputs and upstream answers the model draws from                        *)
(***************************************************************************)
\* Two channel IDs: UCaaaaaaaaaaaaaaaaaaaaaa and UCbbbbbbbbbbbbbbbbbbbbbb.
ID1 == IdPrefix \o [i \in 1..(IdLen - Len(IdPrefix)) |-> "a"]

ID2 == IdPrefix \o [i \in 1..(IdLen - Len(IdPrefix)) |-> "b"]

InEmpty == <<>>

InId == ID1

\* https://www.youtube.com/channel/UCaaaaaaaaaaaaaaaaaaaaaa
InChannelUrl == <<"h","t","t","p","s",":","/","/","w","w","w",".">> \o YoutubeCom \o ChannelPath \o ID1

\* https://example.com/channel/UCaaaaaaaaaaaaaaaaaaaaaa
InOtherHostUrl == <<"h","t","t","p","s",":","/","/","e","x","a","m","p","l","e",".","c","o","m","/">> \o ChannelPath \o ID1

\* @Mr
InHandle == <<"@","M","r">>

\* https://www.youtube.com/@Mr
InHandleUrl == <<"h","t","t","p","s",":","/","/","w","w","w",".">> \o YoutubeCom \o InHandle

\* https://www.youtube.com/c/Mr
InCustomUrl == <<"h","t","t","p","s",":","/","/","w","w","w",".">> \o YoutubeCom \o <<"c","/","M","r">>

\* HTTPS://M.YOUTUBE.COM/channel/UCbbbbbbbbbbbbbbbbbbbbbb
InUpperHostUrl == <<"H","T","T","P","S",":","/","/","M",".","Y","O","U","T","U","B","E",".","C","O","M","/">>
                  \o ChannelPath \o ID2

\* Mr
InToken == <<"M","r">>

\* /
InSlash == <<"/">>

\* %40Mr, the handle @Mr percent-encoded
InEncoded == <<"%","4","0","M","r">>

\* @Mr between blanks
InPadded == <<" ","@","M","r"," ">>

\* @%zz, a malformed escape
InBadEscape == <<"@","%","z","z">>

\* Inputs of the requests that share the cache, and of a request alone.
Inputs == {InEmpty, InId, InHandle}

AllInputs == {InEmpty, InId, InChannelUrl, InUpperHostUrl, InOtherHostUrl, InHandle, InHandleUrl,
              InCustomUrl, InToken, InSlash, InEncoded, InPadded, InBadEscape}

\* Answers of the handle lookup (channels?part=id&forHandle=...): a body
\* with the IDs of data.items, a body without items (items = <<>> stands for
\* an empty as for an absent list), or an exception from fetch or
\* response.json().
LookupAnswers == { [throws |-> FALSE, items |-> ids] : ids \in {<<>>, <<ID1>>, <<ID2, ID1>>} }
                 \cup { [throws |-> TRUE, items |-> <<>>] }

\* Items of the metadata answer, without their id (the upstream answers a
\* lookup by ID with the channel of that ID).
ItemFull == [snippet |-> TRUE, statistics |-> TRUE,
             title |-> "MrBeast", thumbnail |-> "https://yt3.ggpht.com/a", country |-> "US",
             description |-> "hello", publishedAt |-> [y |-> 2020, m |-> 3, d |-> 15, ms |-> 0],
             subscriberCount |-> <<"1","0","0","0","0","0">>]

ItemBare == [snippet |-> TRUE, statistics |-> TRUE,
             title |-> "", thumbnail |-> "", country |-> "",
             description |-> "", publishedAt |-> [y |-> 2024, m |-> 3, d |-> 9, ms |-> 1],
             subscriberCount |-> <<>>]

ItemSmall == [ItemFull EXCEPT !.subscriberCount = <<"9","9","9","9","9">>]

ItemNoSnippet == [ItemFull EXCEPT !.snippet = FALSE]

ItemNoStatistics == [ItemFull EXCEPT !.statistics = FALSE]

\* HTTP statuses of a metadata answer with response.ok false.
FailStatuses == {403, 503}

\* Answers of the metadata fetch (channels?part=snippet,statistics&id=...):
\* a status with response.ok false, an exception from fetch or
\* response.json(), or a body whose data.items is empty/absent or holds an item.
AnswersWith(statuses, items) ==
    { [kind |-> "status", status |-> s, items |-> <<>>] : s \in statuses }
    \cup { [kind |-> "throws", status |-> 0, items |-> <<>>] }
    \cup { [kind |-> "body", status |-> 200, items |-> <<>>] }
    \cup { [kind |-> "body", status |-> 200, items |-> <<it>>] : it \in items }

\* The answers drawn for the requests that share the cache, and for a
\* request alone.
FetchAnswers == AnswersWith({403}, {ItemBare, ItemNoSnippet})

AllFetchAnswers ==
    AnswersWith(FailStatuses, {ItemFull, ItemBare, ItemSmall, ItemNoSnippet, ItemNoStatistics})

(***************************************************************************)
(* extractChannelId up to its first await                                  *)
(***************************************************************************)
\* What extractChannelId does before it suspends: it returns an ID
\* ("id"), returns null ("null"), or sends the handle lookup ("lookup").
Returned(id) == [kind |-> "id", id |-> id, handle |-> <<>>]

ReturnedNull == [kind |-> "null", id |-> <<>>, handle |-> <<>>]

LooksUp(handle) == [kind |-> "lookup", id |-> <<>>, handle |-> handle]

\* part_000:53-79.
\* part_000:63-79, on the decoded input and the results of its two
\* String.prototype.match calls.
MatchedA(decodedInput, channel, custom) ==
    IF IsChannelId(decodedInput) THEN Returned(decodedInput)
    ELSE IF channel # <<>> THEN Returned(channel)
    ELSE IF custom # <<>> THEN LooksUp(custom)
    ELSE ReturnedNull

\* part_000:55-61: a URIError is caught and null returned.
DecodedA(decoded) ==
    IF ~decoded.ok THEN ReturnedNull
    ELSE MatchedA(decoded.str, channelMatch(decoded.str), customMatch(decoded.str))

extractChannelIdA(input) == DecodedA(decodeURIComponent(input))

\* Variation: the direct-ID test is missing.
MatchedB_NoDirect(trimmed, channel, handle) ==
    IF channel # <<>> THEN Returned(channel)
    ELSE IF handle # <<>> THEN LooksUp(StripAt(handle))
    ELSE ReturnedNull

\* youtube-backend.js:57-74, on the trimmed input and the results of its two
\* String.prototype.match calls.
MatchedB(trimmed, channel, handle) ==
    IF IsChannelId(trimmed) THEN Returned(trimmed)
    ELSE IF channel # <<>> THEN Returned(channel)
    ELSE IF handle # <<>> THEN LooksUp(StripAt(handle))
    ELSE ReturnedNull

\* youtube-backend.js:53-55.
extractChannelIdB(input) ==
    IF input = <<>> THEN ReturnedNull
    ELSE MatchedB(Trim(input), channelMatch(Trim(input)), handleMatch(Trim(input)))

extractChannelId(v, input) == IF v = "A" THEN extractChannelIdA(input) ELSE extractChannelIdB(input)

\* extractChannelId of every input the model draws, tabulated.
Variants == {"A", "B"}

Extracted == [v \in Variants, input \in AllInputs |-> extractChannelId(v, input)]

\* The value extractChannelId returns once the lookup is answered
\* (part_000:80-85, youtube-backend.js:75-83): data.items[0].id, or null
\* (<<>>). An exception is caught in variant B only.
\* Variation: the last item is taken instead of the first.
lookupResult_Last(answer) ==
    IF answer.items # <<>> THEN answer.items[Len(answer.items)] ELSE <<>>

lookupResult(answer) == IF answer.items # <<>> THEN answer.items[1] ELSE <<>>

(***************************************************************************)
(* State                                                                   *)
(***************************************************************************)
\* Bounds of the model.
MaxRequests == 2

MaxTicks == 2

\* const CACHE_TTL = 24 * 60 * 60 * 1000
CACHE_TTL == 24 * 60 * 60 * 1000

\* The clock advances by a millisecond or by a millisecond less than the TTL.
TickSteps == {1, CACHE_TTL - 1}

Requests == 1..MaxRequests

VARIABLES
    variant,   \* "A" (part_000) or "B" (youtube-backend.js): which server runs
    now,       \* Date.now(), in milliseconds since BaseDate 00:00 UTC
    ticks,     \* number of clock advances so far
    cache,     \* the Map `cache`: key -> [data, timestamp]
    writer,    \* history: key -> the request whose cache.set wrote the entry, and when
    req        \* the requests: position, locals, calls issued, responses sent

vars == <<variant, now, ticks, cache, writer, req>>

\* Age of "no entry" in the history field `age`.
NoEntry == -1

\* A request that has not arrived. pc: "idle", "resolved" (extractChannelId
\* has returned, the handler's await is pending), "lookup" (handle lookup in
\* flight), "fetch" (metadata fetch in flight), "done" (a response was sent),
\* "rejected" (the handler's promise rejected; the handler sends nothing).
\* hit, age and alias are history fields of the cache check: whether it was a
\* hit, the age of the entry it found, and whether some fresh entry had been
\* written by a request that resolved to the same channel ID. threw is the
\* history of the handle lookup: whether fetch or response.json() threw;
\* lookedUp is the data.items it answered with. fetched is the history of
\* the metadata fetch: the answers it got (none or one).
IdleRequest == [pc |-> "idle", input |-> <<>>, cacheKey |-> <<>>, channelId |-> <<>>,
                calls |-> <<>>, resp |-> <<>>,
                checked |-> FALSE, hit |-> FALSE, age |-> NoEntry, alias |-> FALSE,
                threw |-> FALSE, lookedUp |-> <<>>, fetched |-> <<>>]

Init ==
    /\ variant \in Variants
    /\ now = 0
    /\ ticks = 0
    /\ cache = [k \in {} |-> 0]
    /\ writer = [k \in {} |-> 0]
    /\ req = [r \in Requests |-> IdleRequest]

(***************************************************************************)
(* The cache and the responses                                             *)
(***************************************************************************)
\* Variation: the comparison written <=.
Fresh_Inclusive(entry, t) == (t - entry.timestamp) <= CACHE_TTL

\* (Date.now() - cached.timestamp) < CACHE_TTL
Fresh(entry, t) == (t - entry.timestamp) < CACHE_TTL

\* cached && (Date.now() - cached.timestamp) < CACHE_TTL
IsHit(c, key, t) == key \in DOMAIN c /\ Fresh(c[key], t)

\* Variation: an entry that is still fresh is kept (first write wins).
cacheSet_KeepFresh(c, key, data, t) ==
    IF key \in DOMAIN c /\ (t - c[key].timestamp) < CACHE_TTL THEN c
    ELSE [k \in DOMAIN c \cup {key} |-> IF k = key THEN [data |-> data, timestamp |-> t] ELSE c[k]]

\* Variation: cache.set also removes the entries that have expired.
cacheSet_DropExpired(c, key, data, t) ==
    [k \in { j \in DOMAIN c : (t - c[j].timestamp) < CACHE_TTL } \cup {key} |->
        IF k = key THEN [data |-> data, timestamp |-> t] ELSE c[k]]

\* cache.set(cacheKey, { data: responseData, timestamp: Date.now() })
cacheSet(c, key, data, t) ==
    [k \in DOMAIN c \cup {key} |-> IF k = key THEN [data |-> data, timestamp |-> t] ELSE c[k]]

\* Variation: both variants key the cache by the raw input.
cacheKeyOf_Raw(v, channelInput, channelId) == channelInput

\* const cacheKey = channelInput (A) / = channelId (B)
cacheKeyOf(v, channelInput, channelId) == IF v = "A" THEN channelInput ELSE channelId

\* Variation: a hit computes the age again at the time of the hit.
hitBody_Recomputed(v, entry, t) ==
    LET age  == calculateChannelAge(DateOfClock(t), entry.data.creation_date)
        data == [entry.data EXCEPT !.account_age = age.accountAge, !.age_days = age.age_days]
    IN  IF v = "A" THEN data ELSE [is_cached |-> TRUE] @@ data

\* The body of a cache hit at Date.now() = t: cached.data (A),
\* { ...cached.data, is_cached: true } (B).
hitBody(v, entry, t) == IF v = "A" THEN entry.data ELSE [is_cached |-> TRUE] @@ entry.data

\* What cache.set stores and the body sent after it: responseData both (A);
\* responseData and { ...responseData, is_cached: false } (B).
storedData(v, data) == data

missBody(v, data) == IF v = "A" THEN data ELSE [is_cached |-> FALSE] @@ data

Ok(body) == [status |-> 200, body |-> body]

Error(status, message) == [status |-> status, body |-> [error |-> message]]

RequiredError(v) ==
    Error(400, IF v = "A" THEN "Channel URL, handle, or ID is required"
                          ELSE "Channel URL or ID is required")

InvalidError(v) ==
    Error(400, IF v = "A" THEN "Invalid channel URL, handle, or ID"
                          ELSE "Invalid channel URL or ID")

\* Variation: a non-success status is answered with a generic 500.
UpstreamError_Generic(v, status) ==
    Error(500, IF v = "A" THEN <<"Failed to fetch channel data: HTTP ", status>>
                          ELSE <<"Failed to fetch channel data">>)

UpstreamError(v, status) ==
    Error(status, IF v = "A" THEN <<"Failed to fetch channel data: HTTP ", status>>
                             ELSE <<"Failed to fetch channel data">>)

NotFoundError == Error(404, "Channel not found")

FetchError == Error(500, "Could not fetch channel data")

HandleCall(handle) == [api |-> "forHandle", arg |-> handle]

IdCall(id) == [api |-> "id", arg |-> id]

\* res.json / res.status(..).json: the response is sent and the handler ends.
Respond(rq, response) == [rq EXCEPT !.pc = "done", !.resp = Append(@, response)]

\* Some fresh entry was written by a request that had resolved to `id`.
AliasFresh(id) ==
    \E k \in DOMAIN cache : Fresh(cache[k], now) /\ req[writer[k].by].channelId = id

\* The history of a cache check under `key` is recorded in rq; id is the
\* channel ID the input resolves to without a lookup (<<>> when it does not).
Checked(rq, key, id) ==
    [rq EXCEPT !.cacheKey = key, !.checked = TRUE,
               !.age = IF key \in DOMAIN cache THEN now - cache[key].timestamp ELSE NoEntry,
               !.alias = (id # <<>> /\ AliasFresh(id))]

\* Variation: the hit branch lacks its `return`: the cached data is sent and
\* the handler goes on as on a miss.
CacheCheck_NoReturn(rq, key, miss) ==
    IF IsHit(cache, key, now)
    THEN [Checked(miss, key, miss.channelId) EXCEPT
              !.hit = TRUE, !.resp = Append(@, Ok(hitBody(variant, cache[key], now)))]
    ELSE Checked(miss, key, miss.channelId)

\* The cache check (part_000:90-95, youtube-backend.js:112-117) of a request
\* with cache key `key`: on a hit the cached data is sent, on a miss the
\* request goes on as `miss`, which holds the channel ID the request has
\* resolved to so far.
CacheCheck(rq, key, miss) ==
    IF IsHit(cache, key, now)
    THEN Respond([Checked(rq, key, miss.channelId) EXCEPT !.hit = TRUE],
                 Ok(hitBody(variant, cache[key], now)))
    ELSE Checked(miss, key, miss.channelId)

\* Variation: the fetch is sent for the raw input.
SendFetch_RawInput(rq) == [rq EXCEPT !.pc = "fetch", !.calls = Append(@, IdCall(rq.input))]

\* The metadata fetch for rq.channelId is sent.
SendFetch(rq) == [rq EXCEPT !.pc = "fetch", !.calls = Append(@, IdCall(rq.channelId))]

\* extractChannelId is entered and goes as far as ex: it returns at once or
\* sends the handle lookup.
Extract(rq, ex) ==
    IF ex.kind = "lookup"
    THEN [rq EXCEPT !.pc = "lookup", !.calls = Append(@, HandleCall(ex.handle))]
    ELSE [rq EXCEPT !.pc = "resolved", !.channelId = ex.id]

\* The handler of a request rq with a non-empty input, up to its first
\* await: the cache check and then extractChannelId (part_000:90-97), or
\* extractChannelId alone (youtube-backend.js:106); entered is the request
\* with extractChannelId entered.
Handle(rq, entered) ==
    IF variant = "A" THEN CacheCheck(rq, cacheKeyOf(variant, rq.input, <<>>), entered)
    ELSE entered

\* The handler resumes with rq.channelId, up to the metadata fetch
\* (part_000:98-107, youtube-backend.js:107-123).
Resume(rq) ==
    IF rq.channelId = <<>> THEN Respond(rq, InvalidError(variant))
    ELSE IF variant = "B"
         THEN CacheCheck(rq, cacheKeyOf(variant, rq.input, rq.channelId), SendFetch(rq))
         ELSE SendFetch(rq)

\* The handler's try block once the metadata answer has an item with
\* snippet and statistics (part_000:119-141, youtube-backend.js:135-156):
\* data is stored under the request's key and sent.
Store(r, rq, data) ==
    /\ cache' = cacheSet(cache, rq.cacheKey, storedData(variant, data), now)
    /\ writer' = [k \in DOMAIN writer \cup {rq.cacheKey} |->
                     IF k = rq.cacheKey THEN [by |-> r, at |-> now] ELSE writer[k]]
    /\ req' = [req EXCEPT ![r] = Respond(rq, Ok(missBody(variant, data)))]

\* Variation: the test `!data.items || data.items.length === 0` is missing,
\* and reading data.items[0] fails inside the try block.
Fail_NoItemsTest(rq, answer) ==
    IF answer.kind = "status" THEN Respond(rq, UpstreamError(variant, answer.status))
    ELSE Respond(rq, FetchError)

\* The metadata answer yields no data (part_000:108-117 and 142-145,
\* youtube-backend.js:124-133 and 157-160).
Fail(rq, answer) ==
    IF answer.kind = "status" THEN Respond(rq, UpstreamError(variant, answer.status))
    ELSE IF answer.kind = "throws" THEN Respond(rq, FetchError)
    ELSE IF answer.items = <<>> THEN Respond(rq, NotFoundError)
    ELSE Respond(rq, FetchError)

(***************************************************************************)
(* Actions                                                                 *)
(***************************************************************************)
\* Time passes.
Tick(d) ==
    /\ ticks < MaxTicks
    /\ now' = now + d
    /\ ticks' = ticks + 1
    /\ UNCHANGED <<variant, cache, writer, req>>

\* Variation: the route lacks its `if (!channelInput)` test.
Receive_NoRequiredCheck(r, channelInput) ==
    /\ req[r].pc = "idle"
    /\ \A q \in Requests : q < r => req[q].pc # "idle"
    /\ req' = [req EXCEPT ![r] =
            Handle([@ EXCEPT !.input = channelInput],
                   Extract([@ EXCEPT !.input = channelInput],
                           Extracted[variant, channelInput])) ]
    /\ UNCHANGED <<variant, now, ticks, cache, writer>>

\* A request arrives with `channelInput` (part_000:162-183 and 89-97,
\* youtube-backend.js:99-106), up to the handler's first await. Requests are
\* numbered in the order they arrive.
Receive(r, channelInput) ==
    /\ req[r].pc = "idle"
    /\ \A q \in Requests : q < r => req[q].pc # "idle"
    /\ req' = [req EXCEPT ![r] =
            IF channelInput = <<>>
            THEN Respond([@ EXCEPT !.input = channelInput], RequiredError(variant))
            ELSE Handle([@ EXCEPT !.input = channelInput],
                        Extract([@ EXCEPT !.input = channelInput],
                                Extracted[variant, channelInput])) ]
    /\ UNCHANGED <<variant, now, ticks, cache, writer>>

\* The handle lookup is answered (part_000:76-85, youtube-backend.js:71-83).
\* In variant A an exception is not caught: it rejects extractChannelId and,
\* through the await outside the try block, the handler, which sends nothing.
LookupReturns(r, answer) ==
    /\ req[r].pc = "lookup"
    /\ req' = [req EXCEPT ![r] =
            IF answer.throws
            THEN IF variant = "A" THEN [@ EXCEPT !.pc = "rejected", !.threw = TRUE]
                                  ELSE [@ EXCEPT !.pc = "resolved", !.threw = TRUE]
            ELSE [@ EXCEPT !.pc = "resolved", !.channelId = lookupResult(answer),
                           !.lookedUp = answer.items]]
    /\ UNCHANGED <<variant, now, ticks, cache, writer>>

\* The handler resumes with channelId (part_000:98-107,
\* youtube-backend.js:107-123).
Resolved(r) ==
    /\ req[r].pc = "resolved"
    /\ req' = [req EXCEPT ![r] = Resume(@)]
    /\ UNCHANGED <<variant, now, ticks, cache, writer>>

\* Variation: cache.set runs as soon as the answer holds an item, before
\* the item's snippet and statistics are read.
FetchReturns_StoreFirst(r, answer) ==
    /\ req[r].pc = "fetch"
    /\ IF answer.kind = "body" /\ answer.items # <<>>
       THEN /\ cache' = cacheSet(cache, req[r].cacheKey,
                                 responseData(variant, [id |-> req[r].channelId] @@ answer.items[1],
                                              DateOfClock(now)), now)
            /\ writer' = [k \in DOMAIN writer \cup {req[r].cacheKey} |->
                             IF k = req[r].cacheKey THEN [by |-> r, at |-> now] ELSE writer[k]]
            /\ req' = [req EXCEPT ![r] =
                         IF answer.items[1].snippet /\ answer.items[1].statistics
                         THEN Respond([@ EXCEPT !.fetched = <<answer>>],
                                      Ok(missBody(variant, cache'[req[r].cacheKey].data)))
                         ELSE Fail([@ EXCEPT !.fetched = <<answer>>], answer)]
       ELSE /\ req' = [req EXCEPT ![r] = Fail([@ EXCEPT !.fetched = <<answer>>], answer)]
            /\ UNCHANGED <<cache, writer>>
    /\ UNCHANGED <<variant, now, ticks>>

\* The metadata fetch is answered (part_000:108-145,
\* youtube-backend.js:124-160).
FetchReturns(r, answer) ==
    /\ req[r].pc = "fetch"
    /\ IF /\ answer.kind = "body"
          /\ answer.items # <<>>
          /\ answer.items[1].snippet
          /\ answer.items[1].statistics
       THEN Store(r, [req[r] EXCEPT !.fetched = <<answer>>],
                  responseData(variant, [id |-> req[r].channelId] @@ answer.items[1],
                               DateOfClock(now)))
       ELSE /\ req' = [req EXCEPT ![r] = Fail([@ EXCEPT !.fetched = <<answer>>], answer)]
            /\ UNCHANGED <<cache, writer>>
    /\ UNCHANGED <<variant, now, ticks>>

Next ==
    \/ \E d \in TickSteps : Tick(d)
    \/ \E r \in Requests, channelInput \in Inputs : Receive(r, channelInput)
    \/ \E r \in Requests, answer \in LookupAnswers : LookupReturns(r, answer)
    \/ \E r \in Requests : Resolved(r)
    \/ \E r \in Requests, answer \in FetchAnswers : FetchReturns(r, answer)

Spec == Init /\ [][Next]_vars

\* One request alone, from every input and with every answer.
NextAlone ==
    \/ \E channelInput \in AllInputs : Receive(1, channelInput)
    \/ \E answer \in LookupAnswers : LookupReturns(1, answer)
    \/ Resolved(1)
    \/ \E answer \in AllFetchAnswers : FetchReturns(1, answer)

SpecAlone == Init /\ [][NextAlone]_vars

\* The server's clock at start, for the requests that exercise
\* calculateChannelAge: the first, tenth and last day of March 2024, at
\* midnight and 5 ms later.
AgeStarts == { d * MS_PER_DAY + ms : d \in {1 - BaseDate.d, 0, 31 - BaseDate.d}, ms \in {0, 5} }

\* snippet.publishedAt of the channels these requests fetch.
AgeDates == { [y |-> 2020, m |-> 3,  d |-> 15, ms |-> 0],
              [y |-> 2023, m |-> 3,  d |-> 31, ms |-> 0],
              [y |-> 2023, m |-> 12, d |-> 31, ms |-> 0],
              [y |-> 2024, m |-> 1,  d |-> 31, ms |-> 0],
              [y |-> 2024, m |-> 2,  d |-> 29, ms |-> 7],
              [y |-> 2024, m |-> 3,  d |-> 1,  ms |-> 0],
              [y |-> 2024, m |-> 3,  d |-> 1,  ms |-> 5],
              [y |-> 2024, m |-> 3,  d |-> 9,  ms |-> 7],
              [y |-> 2024, m |-> 3,  d |-> 10, ms |-> 0] }

AgeAnswers == { [kind |-> "body", status |-> 200,
                 items |-> <<[ItemFull EXCEPT !.publishedAt = p]>>] : p \in AgeDates }

\* One request for a channel ID on a server started at any of AgeStarts,
\* its metadata fetch answered with a channel created on any of AgeDates.
InitAge ==
    /\ variant \in Variants
    /\ now \in AgeStarts
    /\ ticks = 0
    /\ cache = [k \in {} |-> 0]
    /\ writer = [k \in {} |-> 0]
    /\ req = [r \in Requests |-> IdleRequest]

NextAge ==
    \/ Receive(1, InId)
    \/ Resolved(1)
    \/ \E answer \in AgeAnswers : FetchReturns(1, answer)

SpecAge == InitAge /\ [][NextAge]_vars

(***************************************************************************)
(* Properties                                                              *)
(***************************************************************************)
HandleCalls(rq) == SelectSeq(rq.calls, LAMBDA c : c.api = "forHandle")

IdCalls(rq) == SelectSeq(rq.calls, LAMBDA c : c.api = "id")

\* A response body without the cache-hit marker.
Strip(body) == [f \in DOMAIN body \ {"is_cached"} |-> body[f]]

Succeeded(rq) == rq.pc = "done" /\ Len(rq.resp) = 1 /\ rq.resp[1].status = 200

\* C1 as stated: a request whose cache check is a hit is answered at once and
\* has issued no upstream call, neither a handle lookup nor a metadata fetch.
C1_HitIssuesNoCall ==
    \A r \in Requests : req[r].hit => req[r].pc = "done" /\ req[r].calls = <<>>

\* C1, amended: a request whose cache check is a hit is answered at once with
\* status 200 and issues no metadata fetch; in variant A (cache check first)
\* it has issued no upstream call at all, in variant B (resolution first) it
\* has issued at most the one handle lookup of its resolution.
C1_HitIssuesNoFetch ==
    \A r \in Requests :
        req[r].hit =>
            /\ Succeeded(req[r])
            /\ IdCalls(req[r]) = <<>>
            /\ Len(req[r].calls) <= 1
            /\ variant = "A" => req[r].calls = <<>>

\* A hit in variant B after the handle lookup of its resolution.
C1_Witness ==
    \E r \in Requests : variant = "B" /\ req[r].hit /\ Len(HandleCalls(req[r])) = 1

\* C2 as stated: a request that resolves to the canonical ID of a fresh entry
\* written for another raw input is served from the cache.
C2_AliasIsHit ==
    \A r \in Requests : req[r].alias => req[r].hit

\* C2, amended: in variant B the cache is keyed by the resolved ID, and a
\* request resolving to the ID of a fresh entry is served from it without a
\* metadata fetch, whatever raw input wrote it; in variant A the cache is
\* keyed by the raw input, and an entry is only ever looked up and written
\* under the literal input of the request.
C2_KeyIdentity ==
    /\ variant = "B" =>
          /\ \A r \in Requests : req[r].alias => req[r].hit /\ IdCalls(req[r]) = <<>>
          /\ \A k \in DOMAIN cache : req[writer[k].by].channelId = k
          /\ \A r \in Requests : req[r].checked => req[r].cacheKey = req[r].channelId
    /\ variant = "A" =>
          /\ \A k \in DOMAIN cache : req[writer[k].by].input = k
          /\ \A r \in Requests : req[r].checked => req[r].cacheKey = req[r].input

\* Variant B serves a request from the entry another raw input wrote.
C2_Witness ==
    /\ variant = "B"
    /\ \E r \in Requests :
          /\ req[r].hit
          /\ req[r].alias
          /\ req[writer[req[r].cacheKey].by].input # req[r].input

\* C3: a cache check that finds an entry aged at most CACHE_TTL - 1 ms is a
\* hit, one that finds an entry aged CACHE_TTL or more is a miss, and every
\* hit serves an entry younger than CACHE_TTL.
C3_TtlBoundary ==
    \A r \in Requests :
        req[r].checked =>
            /\ (req[r].age # NoEntry /\ req[r].age <= CACHE_TTL - 1) => req[r].hit
            /\ req[r].age >= CACHE_TTL => ~req[r].hit
            /\ req[r].hit => req[r].age >= 0 /\ req[r].age < CACHE_TTL

\* An entry aged exactly CACHE_TTL - 1 is served.
C3_Witness ==
    \E r \in Requests : req[r].age = CACHE_TTL - 1 /\ req[r].hit

\* An entry aged exactly CACHE_TTL is a miss.
C3_MissAtTtl ==
    \E r \in Requests : req[r].checked /\ req[r].age = CACHE_TTL /\ ~req[r].hit

\* C4: the body of a cache hit is, apart from is_cached, exactly the data of
\* the entry it was served from, with the account_age and age_days stored;
\* what a successful miss stores is, apart from is_cached, the body it sends;
\* and no stored entry contains is_cached.
C4_RoundTrip ==
    /\ [][\A r \in Requests :
             /\ (~req[r].hit /\ req'[r].hit) =>
                    /\ req'[r].cacheKey \in DOMAIN cache
                    /\ Strip(req'[r].resp[1].body) = cache[req'[r].cacheKey].data
                    /\ cache' = cache
             /\ (req[r].pc = "fetch" /\ Succeeded(req'[r])) =>
                    cache'[req[r].cacheKey].data = Strip(req'[r].resp[1].body)]_vars
    /\ [](\A k \in DOMAIN cache : "is_cached" \notin DOMAIN cache[k].data)

\* A hit served some time after the entry was stored.
C4_Witness ==
    \E r \in Requests : req[r].hit /\ req[r].age > 0 /\ Succeeded(req[r])

\* C5: the entry under a key is exactly the data and the timestamp of the
\* request whose cache.set ran last for that key.
C5_LastWriteWins ==
    \A k \in DOMAIN cache :
        LET w == req[writer[k].by]
        IN  /\ Succeeded(w)
            /\ ~w.hit
            /\ w.cacheKey = k
            /\ cache[k].data = Strip(w.resp[1].body)
            /\ cache[k].timestamp = writer[k].at

\* Two requests for one key both found no entry, both fetched and both
\* stored; the entry is the second writer's and differs from what the first
\* stored.
C5_Witness ==
    \E r1, r2 \in Requests :
        /\ r1 # r2
        /\ req[r1].cacheKey = req[r2].cacheKey
        /\ req[r1].checked /\ req[r1].age = NoEntry /\ Succeeded(req[r1]) /\ IdCalls(req[r1]) # <<>>
        /\ req[r2].checked /\ req[r2].age = NoEntry /\ Succeeded(req[r2]) /\ IdCalls(req[r2]) # <<>>
        /\ writer[req[r2].cacheKey].by = r2
        /\ Strip(req[r1].resp[1].body) # cache[req[r2].cacheKey].data

\* Both requests have seen a miss for one key and have their metadata fetch
\* in flight.
C5_BothFetching ==
    \E r1, r2 \in Requests :
        /\ r1 # r2
        /\ req[r1].cacheKey = req[r2].cacheKey
        /\ req[r1].checked /\ req[r1].pc = "fetch"
        /\ req[r2].checked /\ req[r2].pc = "fetch"

\* The request has entered extractChannelId or was answered from the cache.
Entered(rq) == rq.pc # "idle" /\ rq.input # <<>>

\* The handle lookup of the request, if any, was answered without an
\* exception and extractChannelId has returned.
ResolutionReturned(rq) == rq.pc \in {"resolved", "fetch", "done"} /\ ~rq.hit /\ ~rq.threw

\* The text the patterns are applied to: the decoded input (A), the trimmed
\* input (B); in variant A a malformed escape ends the resolution.
Text(v, input) == IF v = "A" THEN decodeURIComponent(input).str ELSE Trim(input)

Decodes(v, input) == v = "B" \/ decodeURIComponent(input).ok

\* C6 as stated: a request whose handle lookup failed at transport level
\* (exception from fetch or from parsing the body) resolves to nothing like
\* one whose lookup found nothing: it issues no metadata fetch and is
\* answered with the 400 invalid-identifier error.
C6_LookupFailureIsInvalid ==
    \A r \in Requests :
        req[r].threw =>
            /\ req[r].pc \in {"resolved", "done"}
            /\ req[r].channelId = <<>>
            /\ IdCalls(req[r]) = <<>>
            /\ req[r].pc = "done" => req[r].resp = <<InvalidError(variant)>>

\* The handle form of C7 as stated: neither a canonical ID nor containing
\* /channel/<canonical-id>.
ContainsChannelPath(s) ==
    \E i \in 1..Len(s) :
        /\ LitAt(<<"/">> \o ChannelPath, s, i, FALSE)
        /\ i + Len(ChannelPath) + IdLen <= Len(s)
        /\ IsChannelId(SubSeq(s, i + Len(ChannelPath) + 1, i + Len(ChannelPath) + IdLen))

\* C7 as stated: for every input that is neither a canonical ID nor contains
\* /channel/<canonical-id>, resolution issues exactly one handle lookup.
C7_EveryOtherInputLooksUp ==
    \A r \in Requests :
        (Entered(req[r]) /\ ~IsChannelId(req[r].input) /\ ~ContainsChannelPath(req[r].input))
            => Len(HandleCalls(req[r])) = 1

\* The handle forms of the two variants. A: youtube.com/c/<name> or
\* youtube.com/@<name> anywhere (any letter case), or @<name> at the start.
\* B: any character that is neither white space nor "/".
HandleFormA(s) ==
    \/ \E i \in 1..Len(s) :
          /\ LitAt(YoutubeCom, s, i, TRUE)
          /\ \/ LitAt(<<"c", "/">>, s, i + Len(YoutubeCom), TRUE)
                   /\ i + Len(YoutubeCom) + 2 <= Len(s)
                   /\ IsNameChar(s[i + Len(YoutubeCom) + 2])
             \/ LitAt(<<"@">>, s, i + Len(YoutubeCom), FALSE)
                   /\ i + Len(YoutubeCom) + 1 <= Len(s)
                   /\ IsNameChar(s[i + Len(YoutubeCom) + 1])
    \/ Len(s) >= 2 /\ s[1] = "@" /\ IsNameChar(s[2])

HandleFormB(s) == \E i \in 1..Len(s) : IsNameChar(s[i])

\* The input is resolved by a handle lookup: its text is neither a canonical
\* ID nor holds a youtube.com/channel/ URL, and has the variant's handle form.
UsesLookup(v, input) ==
    /\ Decodes(v, input)
    /\ ~IsChannelId(Text(v, input))
    /\ channelMatch(Text(v, input)) = <<>>
    /\ IF v = "A" THEN HandleFormA(Text(v, input)) ELSE HandleFormB(Text(v, input))

ResolvesDirectly(v, input) ==
    Decodes(v, input) /\ (IsChannelId(Text(v, input)) \/ channelMatch(Text(v, input)) # <<>>)

\* C7, amended: an input whose text has the variant's handle form issues
\* exactly one handle lookup, and resolution returns the ID of the first
\* element of the answered list, or nothing when the list is empty or absent;
\* every other input that is not resolved directly issues no call and
\* resolves to nothing.
C7_HandleFormLooksUpOnce ==
    \A r \in Requests :
        Entered(req[r]) =>
            /\ Len(HandleCalls(req[r])) = (IF UsesLookup(variant, req[r].input) THEN 1 ELSE 0)
            /\ (UsesLookup(variant, req[r].input) /\ ResolutionReturned(req[r])) =>
                   req[r].channelId = (IF req[r].lookedUp # <<>> THEN req[r].lookedUp[1] ELSE <<>>)
            /\ (~UsesLookup(variant, req[r].input) /\ ~ResolvesDirectly(variant, req[r].input)) =>
                   req[r].channelId = <<>> /\ req[r].calls = <<>>

\* A lookup answered with two channels resolves to the first.
C7_Witness ==
    \E r \in Requests :
        /\ Len(HandleCalls(req[r])) = 1
        /\ Len(req[r].lookedUp) = 2
        /\ req[r].channelId = req[r].lookedUp[1]
        /\ req[r].channelId # req[r].lookedUp[2]

\* The last IdLen characters of s.
IdTail(s) == SubSeq(s, Len(s) - IdLen + 1, Len(s))

\* <prefix>/channel/<canonical-id> with any prefix.
ChannelUrlForm(s) ==
    /\ Len(s) > IdLen + Len(ChannelPath)
    /\ IsChannelId(IdTail(s))
    /\ LitAt(<<"/">> \o ChannelPath, s, Len(s) - IdLen - Len(ChannelPath), FALSE)

YoutubeChannelUrl(s) ==
    LET lit == YoutubeCom \o ChannelPath
        at  == { i \in 1..Len(s) :
                    /\ LitAt(lit, s, i, TRUE)
                    /\ i + Len(lit) + IdLen - 1 <= Len(s)
                    /\ IsChannelId(SubSeq(s, i + Len(lit), i + Len(lit) + IdLen - 1))
                    /\ \A j \in 1..(i - 1) : ~LitAt(lit, s, j, TRUE) }
    IN  IF at = {} THEN 0 ELSE CHOOSE i \in at : TRUE

C9_CanonicalIdUnchanged ==
    \A r \in Requests :
        (Entered(req[r]) /\ IsChannelId(req[r].input)) =>
            /\ HandleCalls(req[r]) = <<>>
            /\ req[r].pc # "rejected"
            /\ req[r].hit => req[r].calls = <<>>
            /\ ~req[r].hit => req[r].channelId = req[r].input
            /\ (~req[r].hit /\ req[r].pc \in {"fetch", "done"}) =>
                   req[r].calls = <<IdCall(req[r].input)>>

\* A canonical ID was fetched on a miss and answered.
C9_Witness ==
    \E r \in Requests :
        /\ IsChannelId(req[r].input)
        /\ ~req[r].hit
        /\ Succeeded(req[r])
        /\ req[r].resp[1].body.channel_id = req[r].input

\* C10: a request issues at most one handle lookup and at most one metadata
\* fetch; the fetch comes last, only once resolution has returned an ID, and
\* is for exactly that ID (the first ID of the lookup's answer when there was
\* a lookup); a request that resolved to nothing issues no fetch.
C10_CallOrder ==
    \A r \in Requests :
        LET c == req[r].calls
        IN  /\ Len(HandleCalls(req[r])) <= 1
            /\ Len(IdCalls(req[r])) <= 1
            /\ req[r].channelId = <<>> => IdCalls(req[r]) = <<>>
            /\ IdCalls(req[r]) # <<>> =>
                  /\ c[Len(c)] = IdCall(req[r].channelId)
                  /\ IsChannelId(req[r].channelId)
                  /\ req[r].pc \in {"fetch", "done"}
            /\ (HandleCalls(req[r]) # <<>> /\ IdCalls(req[r]) # <<>>) =>
                  /\ Len(c) = 2
                  /\ c[1].api = "forHandle"
                  /\ c[2] = IdCall(req[r].lookedUp[1])

\* A handle input on a miss: the lookup, then the fetch for the ID returned.
C10_Witness ==
    \E r \in Requests :
        /\ req[r].input = InHandle
        /\ req[r].calls = <<HandleCall(<<"M", "r">>), IdCall(ID2)>>
        /\ Succeeded(req[r])

\* The response is a structured error: a status other than 200 and a body
\* that is exactly {error}.
IsError(response) == response.status # 200 /\ DOMAIN response.body = {"error"}

\* C11: a request whose input is missing or the empty string is answered
\* with status 400 and an {error} payload; it issues no handle lookup and no
\* metadata fetch, the cache is not read for it, and it writes no entry.
C11_EmptyIsRequired ==
    /\ [](\A r \in Requests :
             (req[r].pc # "idle" /\ req[r].input = <<>>) =>
                 /\ req[r].pc = "done"
                 /\ Len(req[r].resp) = 1
                 /\ req[r].resp[1].status = 400
                 /\ IsError(req[r].resp[1])
                 /\ req[r].calls = <<>>
                 /\ ~req[r].checked /\ ~req[r].hit
                 /\ \A k \in DOMAIN cache : writer[k].by # r)
    /\ [][\A r \in Requests :
             (req[r].pc = "idle" /\ req'[r].pc # "idle" /\ req'[r].input = <<>>) =>
                 cache' = cache]_vars

\* An empty input was answered with 400 while the cache held an entry.
C11_Witness ==
    \E r \in Requests :
        /\ req[r].pc = "done"
        /\ req[r].input = <<>>
        /\ req[r].resp[1].status = 400
        /\ DOMAIN cache # {}

\* The metadata fetch of the request was answered with a parseable body
\* whose item list is empty or absent.
ZeroItems(rq) ==
    rq.fetched # <<>> /\ rq.fetched[1].kind = "body" /\ rq.fetched[1].items = <<>>

\* C12: a request whose metadata fetch is answered with zero items is
\* answered with status 404 and an {error} payload, a status other than the
\* 400 of an invalid identifier, and writes no cache entry.
C12_ZeroItemsIsNotFound ==
    /\ [](\A r \in Requests :
             ZeroItems(req[r]) =>
                 /\ req[r].pc = "done"
                 /\ Len(req[r].resp) = 1
                 /\ req[r].resp[1].status = 404
                 /\ req[r].resp[1].status # InvalidError(variant).status
                 /\ IsError(req[r].resp[1])
                 /\ \A k \in DOMAIN cache : writer[k].by # r)
    /\ [][\A r \in Requests :
             (req[r].pc = "fetch" /\ ZeroItems(req'[r])) => cache' = cache]_vars

\* A fetch answered with zero items was answered 404 and its key has no
\* entry.
C12_Witness ==
    \E r \in Requests :
        /\ ZeroItems(req[r])
        /\ req[r].resp[1].status = 404
        /\ req[r].checked
        /\ req[r].cacheKey \notin DOMAIN cache

\* C13: a metadata fetch answered with a non-success status s is answered
\* with status s; a fetch that throws (network failure, or a body that
\* response.json() cannot parse) is answered with status 500; both with an
\* {error} payload.
C13_StatusForwarded ==
    \A r \in Requests :
        req[r].fetched # <<>> =>
            /\ req[r].fetched[1].kind = "status" =>
                   /\ req[r].pc = "done" /\ Len(req[r].resp) = 1
                   /\ req[r].resp[1].status = req[r].fetched[1].status
                   /\ IsError(req[r].resp[1])
            /\ req[r].fetched[1].kind = "throws" =>
                   /\ req[r].pc = "done" /\ Len(req[r].resp) = 1
                   /\ req[r].resp[1].status = 500
                   /\ IsError(req[r].resp[1])

\* An upstream 503 was forwarded as 503.
C13_Witness ==
    \E r \in Requests :
        /\ req[r].fetched # <<>>
        /\ req[r].fetched[1].kind = "status"
        /\ req[r].fetched[1].status = 503
        /\ req[r].resp[1].status = 503

\* A fetch that threw was answered 500.
C13_ThrowIs500 ==
    \E r \in Requests :
        /\ req[r].fetched # <<>>
        /\ req[r].fetched[1].kind = "throws"
        /\ req[r].resp[1].status = 500

\* What C14 requires of a request: an input with a malformed escape
\* resolves to nothing without a call and is answered with the 400
\* invalid-input error, and the encoded handle %40Mr is matched as @Mr.
DecodedBeforeMatching(rq) ==
    /\ ~decodeURIComponent(rq.input).ok =>
           /\ rq.calls = <<>>
           /\ rq.channelId = <<>>
           /\ rq.pc \in {"resolved", "done"}
           /\ rq.pc = "done" => rq.resp = <<InvalidError(variant)>>
    /\ rq.input = InEncoded => HandleCalls(rq) = <<HandleCall(<<"M", "r">>)>>

\* C14 as stated: every raw input is percent-decoded before pattern
\* matching, and an input with a malformed percent-encoding sequence resolves
\* to nothing without a network call and is answered with the 400
\* invalid-input error.
C14_EveryInputDecoded ==
    \A r \in Requests : Entered(req[r]) => DecodedBeforeMatching(req[r])

\* C14, amended: in variant A the input is percent-decoded before pattern
\* matching and a malformed escape resolves to nothing without a call and is
\* answered 400; in variant B the input is trimmed and not decoded: an
\* escape, well-formed or not, is matched literally, so %40Mr and @%zz are
\* looked up as the handles %40Mr and %zz.
C14_DecodedInVariantA ==
    \A r \in Requests :
        Entered(req[r]) =>
            /\ variant = "A" => DecodedBeforeMatching(req[r])
            /\ variant = "B" =>
                   /\ req[r].input = InEncoded => HandleCalls(req[r]) = <<HandleCall(InEncoded)>>
                   /\ req[r].input = InBadEscape =>
                          HandleCalls(req[r]) = <<HandleCall(<<"%", "z", "z">>)>>

\* Variant A answered the malformed escape with the invalid-input error.
C14_Witness ==
    \E r \in Requests :
        /\ variant = "A"
        /\ req[r].input = InBadEscape
        /\ req[r].pc = "done"
        /\ req[r].resp = <<InvalidError(variant)>>
        /\ req[r].calls = <<>>

\* C15: no step removes a key from the cache; the step of a cache check
\* (hit, absent-key miss or expired-entry miss) leaves the cache unchanged;
\* and the entry under a key changes only in the step in which a request
\* with that key completes a successful fetch and stores its data.
C15_ReadsNeverEvict ==
    [][/\ DOMAIN cache \subseteq DOMAIN cache'
       /\ \A r \in Requests : (~req[r].checked /\ req'[r].checked) => cache' = cache
       /\ \A k \in DOMAIN cache :
              cache'[k] # cache[k] =>
                  \E r \in Requests :
                      /\ req[r].pc = "fetch" /\ Succeeded(req'[r])
                      /\ req[r].cacheKey = k
                      /\ writer'[k] = [by |-> r, at |-> now]]_vars

\* A cache check found an expired entry, and the entry is still stored
\* while the request's fetch is in flight.
C15_Witness ==
    \E r \in Requests :
        /\ req[r].checked /\ ~req[r].hit
        /\ req[r].age >= CACHE_TTL
        /\ req[r].pc = "fetch"
        /\ req[r].cacheKey \in DOMAIN cache
        /\ now - cache[req[r].cacheKey].timestamp >= CACHE_TTL

\* The subscriber count of the item the request's metadata fetch returned.
FetchedCount(rq) == rq.fetched[1].items[1].subscriberCount

\* C16: the snapshot sent after a successful fetch has verification_status
\* "Verified" exactly when its subscribers are at least 100000; the count
\* "100000" gives 100000 and "Verified", "99999" gives 99999 and
\* "Not Verified", and an absent count gives 0 and "Not Verified".
C16_InclusiveThreshold ==
    \A r \in Requests :
        (Succeeded(req[r]) /\ req[r].fetched # <<>>) =>
            LET body == req[r].resp[1].body
            IN  /\ body.verification_status =
                       (IF body.subscribers >= 100000 THEN "Verified" ELSE "Not Verified")
                /\ FetchedCount(req[r]) = <<"1","0","0","0","0","0">> =>
                       body.subscribers = 100000 /\ body.verification_status = "Verified"
                /\ FetchedCount(req[r]) = <<"9","9","9","9","9">> =>
                       body.subscribers = 99999 /\ body.verification_status = "Not Verified"
                /\ FetchedCount(req[r]) = <<>> =>
                       body.subscribers = 0 /\ body.verification_status = "Not Verified"

\* A channel with exactly 100000 subscribers was answered "Verified".
C16_Witness ==
    \E r \in Requests :
        /\ Succeeded(req[r])
        /\ req[r].fetched # <<>>
        /\ FetchedCount(req[r]) = <<"1","0","0","0","0","0">>
        /\ req[r].resp[1].body.subscribers = 100000
        /\ req[r].resp[1].body.verification_status = "Verified"

\* Channels with 99999 subscribers and with no count were answered
\* "Not Verified".
C16_BelowAndAbsent ==
    \E r \in Requests :
        /\ Succeeded(req[r])
        /\ req[r].fetched # <<>>
        /\ FetchedCount(req[r]) \in {<<"9","9","9","9","9">>, <<>>}
        /\ req[r].resp[1].body.verification_status = "Not Verified"

\* The handler of the request has ended: it has sent a response and
\* returned, or its promise was rejected.
HandlerEnded(rq) == rq.pc \in {"done", "rejected"}

\* C17 as stated: a request never has two responses; once its handler has
\* ended it has exactly one, whatever the upstream answered in the handle
\* lookup and in the metadata fetch; and every response that is not a
\* success is a structured {error} payload.
C17_ExactlyOneResponse ==
    \A r \in Requests :
        /\ Len(req[r].resp) <= 1
        /\ HandlerEnded(req[r]) => Len(req[r].resp) = 1
        /\ \A i \in 1..Len(req[r].resp) :
               req[r].resp[i].status # 200 => IsError(req[r].resp[i])

\* C18: the step in which a request is answered with an error (400, 404, a
\* forwarded status or 500), or in which its handler is rejected, leaves the
\* cache as it was; the cache changes only in the step in which a request
\* is answered 200 after a metadata fetch that returned an item.
C18_ErrorsLeaveCache ==
    [][/\ \A r \in Requests :
              (\/ req[r].resp = <<>> /\ req'[r].resp # <<>> /\ req'[r].resp[1].status # 200
               \/ req[r].pc # "rejected" /\ req'[r].pc = "rejected")
                  => cache' = cache
       /\ cache' # cache =>
              \E r \in Requests :
                  /\ req[r].pc = "fetch" /\ Succeeded(req'[r])
                  /\ req'[r].fetched[1].kind = "body"
                  /\ req'[r].fetched[1].items # <<>>]_vars

\* The refresh of an expired entry failed: the request found the entry
\* expired, was answered with an error, and the expired entry is still
\* stored.
C18_Witness ==
    \E r \in Requests :
        /\ req[r].checked /\ req[r].age >= CACHE_TTL
        /\ req[r].pc = "done"
        /\ req[r].resp[1].status # 200
        /\ req[r].cacheKey \in DOMAIN cache
        /\ now - cache[req[r].cacheKey].timestamp >= CACHE_TTL

\* The position where the name of a profile input starts: after the @ of a
\* bare @<name>, or after the leftmost youtube.com/@ or youtube.com/c/ (any
\* scheme and host prefix before it); 0 when the input has neither form.
ProfileNameStart(s) ==
    LET at == { i \in 1..Len(s) :
                   /\ LitAt(YoutubeCom, s, i, TRUE)
                   /\ \/ LitAt(<<"@">>, s, i + Len(YoutubeCom), FALSE)
                      \/ LitAt(<<"c", "/">>, s, i + Len(YoutubeCom), FALSE) }
    IN  IF s # <<>> /\ s[1] = "@" THEN 2
        ELSE IF at = {} THEN 0
        ELSE IF LitAt(<<"@">>, s, Leftmost(at) + Len(YoutubeCom), FALSE)
             THEN Leftmost(at) + Len(YoutubeCom) + 1
             ELSE Leftmost(at) + Len(YoutubeCom) + 2

\* The name of a profile input: the segment from ProfileNameStart up to the
\* next "/" or white space.
ProfileName(s) == NameAt(s, ProfileNameStart(s))

\* C19 as stated: for every profile URL whose path segment follows /@ or
\* /c/, with any scheme and host prefix before youtube.com, and for every
\* bare @<name>, resolution issues a single handle lookup and the handle it
\* sends is exactly <name> (inputs without a percent sign, so that decoding
\* plays no part).
C19_ProfileHandleIsName ==
    \A r \in Requests :
        (/\ Entered(req[r])
         /\ "%" \notin Range(req[r].input)
         /\ ProfileNameStart(req[r].input) > 0
         /\ ProfileName(req[r].input) # <<>>) =>
            HandleCalls(req[r]) = <<HandleCall(ProfileName(req[r].input))>>

\* The creation date is not later than the Date `at`.
NotLater(created, at) ==
    \/ created.day < at.day
    \/ created.day = at.day /\ created.ms <= at.ms

\* floor(elapsed milliseconds / 86,400,000) between two Dates; computed from
\* the milliseconds when they fit the integers, day-wise otherwise.
FloorDays(created, at) ==
    IF at.day - created.day <= 20
    THEN ((at.day - created.day) * MS_PER_DAY + at.ms - created.ms) \div MS_PER_DAY
    ELSE (at.day - created.day) - (IF at.ms < created.ms THEN 1 ELSE 0)

\* C20 as stated: for a creation date not later than now the age sent has
\* years >= 0, 0 <= months <= 11 and days >= 0, and age_days is the floor of
\* the elapsed milliseconds / 86,400,000; a channel created 2020-03-15 seen
\* on 2024-03-10 is 3 years and 11 months old. (The clock does not advance
\* under SpecAge, so `now` is the instant of the computation.)
C20_AgeWellFormed ==
    \A r \in Requests :
        (/\ Succeeded(req[r]) /\ ~req[r].hit
         /\ NotLater(DateOfIso(req[r].resp[1].body.creation_date), DateOfClock(now))) =>
            LET body == req[r].resp[1].body
                age  == body.account_age
            IN  /\ age[1] >= 0
                /\ age[3] >= 0 /\ age[3] <= 11
                /\ age[5] >= 0
                /\ body.age_days = FloorDays(DateOfIso(body.creation_date), DateOfClock(now))
                /\ (body.creation_date = [y |-> 2020, m |-> 3, d |-> 15, ms |-> 0] /\ now = 0) =>
                       age[1] = 3 /\ age[3] = 11

=============================================================================
